---- MODULE Spec2Model ----
(***************************************************************************)
(* Model of app.py: a Tk front end that fetches a faculty directory page,  *)
(* extracts (name, title, email) triples with a regular expression,        *)
(* renders them as a fixed-width table, and carries an SQLite contact      *)
(* store keyed uniquely by email.                                          *)
(*                                                                         *)
(* A Python str is modelled as a sequence of characters.  A character is   *)
(* a one-character TLA+ string for ASCII and "U+XXXX" for a code point     *)
(* outside ASCII.                                                          *)
(***************************************************************************)
EXTENDS Integers, Sequences, FiniteSets, TLC

VARIABLES
    url_entry,      \* content of the URL Entry widget
    contact_text,   \* lines held by the ScrolledText widget
    db,             \* rows of table contacts in contacts.db
    requested,      \* URL handed to requests.get by the last fetch action
    clicked_with,   \* history: url_entry when the button was last pressed
    messagebox,     \* error dialog shown by the last fetch action
    returned,       \* list returned by the last scrape_contacts()
    steps,          \* history: calls made by the last fetch action, in order
    response,       \* what the network gave the last fetch action
    submitted,      \* history: every record handed to save_to_database
    call,           \* function harness: the call being made
    ret             \* function harness: its return value

vars == <<url_entry, contact_text, db, requested, clicked_with, messagebox,
          returned, steps, response, submitted, call, ret>>

prog_vars == <<url_entry, contact_text, db, requested, clicked_with,
               messagebox, returned, steps, response, submitted>>

-----------------------------------------------------------------------------
(* Bounds of the model *)

MaxLen == 3
MaxWidth == 5
MaxEmailLen == 4
MaxBlocks == 2
MaxBatch == 2
MaxSaves == 2

-----------------------------------------------------------------------------
(* Strings *)

Max(a, b) == IF a >= b THEN a ELSE b

Strings(chars, n) == UNION {[1..k -> chars] : k \in 0..n}

\* Python's  ch * n
Repeat(ch, n) == [i \in 1..n |-> ch]

\* unicodedata.east_asian_width on the characters the model uses
east_asian_width(ch) ==
    CASE ch \in {"U+540D", "U+5B57", "U+59D3", "U+8077", "U+7A31"} -> "W"
      [] ch = "U+FF21" -> "F"
      [] ch = "U+00B1" -> "A"
      [] ch = "U+FF76" -> "H"
      [] ch \in {"U+05D0", "\t", "\n"} -> "N"
      [] OTHER -> "Na"

\* the membership test of get_display_width with 'A' left out
is_wide_FW(ch) == east_asian_width(ch) \in {"F", "W"}

is_wide(ch) == east_asian_width(ch) \in {"F", "W", "A"}

RECURSIVE display_width_loop(_, _, _)
display_width_loop(s, i, width) ==
    IF i > Len(s) THEN width
    ELSE display_width_loop(s, i + 1,
                            IF is_wide(s[i]) THEN width + 2 ELSE width + 1)

get_display_width(s) == display_width_loop(s, 1, 0)

\* pad_string measuring len(s) instead of the display width
pad_string_len(s, total_width) ==
    s \o Repeat(" ", Max(total_width - Len(s), 0))

pad_string(s, total_width) ==
    LET padding == total_width - get_display_width(s)
    IN  s \o Repeat(" ", Max(padding, 0))

-----------------------------------------------------------------------------
(* Extraction: scrape_contacts, lines 73-87 *)

\* what \s matches and str.strip() removes, on the characters the model uses
is_space(ch) == ch \in {" ", "\t", "\n"}

\* str.strip()
strip(s) ==
    LET kept == {i \in 1..Len(s) : ~is_space(s[i])}
    IN  IF kept = {} THEN <<>>
        ELSE SubSeq(s, CHOOSE i \in kept : \A j \in kept : i <= j,
                       CHOOSE i \in kept : \A j \in kept : j <= i)

\* re.sub(r'\s+', ' ', s): every maximal run of whitespace becomes one space
RECURSIVE re_sub_ws_loop(_, _, _)
re_sub_ws_loop(s, i, out) ==
    IF i > Len(s) THEN out
    ELSE IF is_space(s[i])
         THEN LET after == {j \in i..Len(s) : ~is_space(s[j])}
                  next == IF after = {} THEN Len(s) + 1
                          ELSE CHOOSE j \in after : \A k \in after : j <= k
              IN  re_sub_ws_loop(s, next, Append(out, " "))
         ELSE re_sub_ws_loop(s, i + 1, Append(out, s[i]))

re_sub_ws(s) == re_sub_ws_loop(s, 1, <<>>)

\* str.replace('//', ''): one left-to-right pass over non-overlapping matches
RECURSIVE replace_loop(_, _, _)
replace_loop(s, i, out) ==
    IF i > Len(s) THEN out
    ELSE IF i < Len(s) /\ s[i] = "/" /\ s[i + 1] = "/"
         THEN replace_loop(s, i + 2, out)
         ELSE replace_loop(s, i + 1, Append(out, s[i]))

\* a replace that removes the first '//' only
RECURSIVE replace_first_loop(_, _, _, _)
replace_first_loop(s, i, out, done) ==
    IF i > Len(s) THEN out
    ELSE IF ~done /\ i < Len(s) /\ s[i] = "/" /\ s[i + 1] = "/"
         THEN replace_first_loop(s, i + 2, out, TRUE)
         ELSE replace_first_loop(s, i + 1, Append(out, s[i]), done)

replace_dslash_first(s) == replace_first_loop(s, 1, <<>>, FALSE)

replace_dslash(s) == replace_loop(s, 1, <<>>)

\* The group of  \s*(.*?)\s*</a>  and of  \s*(.*?)\s*</div> : the greedy \s*
\* takes the leading whitespace, the lazy group stops at the first place from
\* which only whitespace is left before the closing tag.
lazy_group(raw) ==
    LET starts == {i \in 1..Len(raw) + 1 :
                      /\ \A j \in 1..i - 1 : is_space(raw[j])
                      /\ i = Len(raw) + 1 \/ ~is_space(raw[i])}
        start  == CHOOSE i \in starts : TRUE
        ends   == {e \in start - 1..Len(raw) :
                      \A j \in e + 1..Len(raw) : is_space(raw[j])}
        end    == CHOOSE e \in ends : \A f \in ends : e <= f
    IN  SubSeq(raw, start, end)

\* pattern.findall(html_content).  The page is the sequence of its contact
\* blocks, each the three raw fragments the pattern's delimiters enclose; the
\* third group,  mailto:(.*?)"> , is the href text as it stands.
findall(html_content) ==
    [k \in 1..Len(html_content) |->
        <<lazy_group(html_content[k].name),
          lazy_group(html_content[k].title),
          html_content[k].mailto>>]

\* the body of the loop over the matches, lines 82-85
contact_of(match) ==
    LET name  == re_sub_ws(match[1])
        title == match[2]
        email == replace_dslash(match[3])
    IN  <<strip(name), strip(title), strip(email)>>

RECURSIVE extract_loop(_, _, _)
extract_loop(matches, i, contacts) ==
    IF i > Len(matches) THEN contacts
    ELSE extract_loop(matches, i + 1, Append(contacts, contact_of(matches[i])))

\* lines 74-87: contacts = []; for match in matches: ...; return contacts
extract(html_content) == extract_loop(findall(html_content), 1, <<>>)

-----------------------------------------------------------------------------
(* Rendering: display_contacts *)

headers == << <<"U+59D3", "U+540D">>, <<"U+8077", "U+7A31">>,
              <<"E", "m", "a", "i", "l">> >>

widths == <<12, 30, 30>>

header_line ==
    pad_string(headers[1], widths[1]) \o pad_string(headers[2], widths[2])
        \o pad_string(headers[3], widths[3])

separator ==
    Repeat("-", widths[1]) \o Repeat("-", widths[2]) \o Repeat("-", widths[3])

row_of(contact) ==
    pad_string(contact[1], widths[1]) \o pad_string(contact[2], widths[2])
        \o pad_string(contact[3], widths[3])

RECURSIVE insert_rows(_, _, _)
insert_rows(text, contacts, i) ==
    IF i > Len(contacts) THEN text
    ELSE insert_rows(Append(text, row_of(contacts[i])), contacts, i + 1)

\* a renderer that skips a record whose email it has already shown
RECURSIVE insert_rows_dedup(_, _, _)
insert_rows_dedup(text, contacts, i) ==
    IF i > Len(contacts) THEN text
    ELSE insert_rows_dedup(
             IF \E j \in 1..i - 1 : contacts[j][3] = contacts[i][3]
             THEN text ELSE Append(text, row_of(contacts[i])),
             contacts, i + 1)

display_contacts_dedup(contacts) ==
    insert_rows_dedup(<<header_line, separator>>, contacts, 1)

\* The widget's content after display_contacts(contacts): the old content is
\* deleted, then each insert adds one line (its trailing "\n" is left implicit).
display_contacts(contacts) ==
    insert_rows(<<header_line, separator>>, contacts, 1)

-----------------------------------------------------------------------------
(* Contact store: table contacts of contacts.db *)

\* CREATE TABLE IF NOT EXISTS: a table that exists is left as it is
setup_database(rows) == rows

RECURSIVE save_loop(_, _, _)
save_loop(rows, contacts, i) ==
    IF i > Len(contacts) THEN rows
    ELSE LET name  == contacts[i][1]
             title == contacts[i][2]
             email == contacts[i][3]
         IN  save_loop(IF \E r \in 1..Len(rows) : rows[r].email = email
                       THEN rows    \* sqlite3.IntegrityError (UNIQUE): pass
                       ELSE Append(rows, [iid |-> Len(rows) + 1, name |-> name,
                                          title |-> title, email |-> email]),
                       contacts, i + 1)

\* a save that overwrites the stored row on a conflict (INSERT OR REPLACE)
RECURSIVE save_replace_loop(_, _, _)
save_replace_loop(rows, contacts, i) ==
    IF i > Len(contacts) THEN rows
    ELSE save_replace_loop(
             IF \E r \in 1..Len(rows) : rows[r].email = contacts[i][3]
             THEN [r \in 1..Len(rows) |->
                      IF rows[r].email = contacts[i][3]
                      THEN [rows[r] EXCEPT !.name = contacts[i][1],
                                           !.title = contacts[i][2]]
                      ELSE rows[r]]
             ELSE Append(rows, [iid |-> Len(rows) + 1, name |-> contacts[i][1],
                                title |-> contacts[i][2],
                                email |-> contacts[i][3]]),
             contacts, i + 1)

save_to_database_replace(rows, contacts) == save_replace_loop(rows, contacts, 1)

\* the table after save_to_database(contacts): connect, insert each, commit
save_to_database(rows, contacts) == save_loop(rows, contacts, 1)

-----------------------------------------------------------------------------
(* The fetch action: scrape_contacts, then display_contacts *)

URL == "https://csie.ncut.edu.tw/content.php?key=86OP82WJQO"

NoDialog == [kind |-> "none", code |-> 0]

\* response.raise_for_status() raises HTTPError for a 4xx or 5xx status
raises_http_error(status_code) == 400 <= status_code /\ status_code < 600

\* a scrape_contacts whose HTTPError handler shows the dialog and falls
\* through to the extraction instead of returning []
scrape_contacts_fall_through(net) ==
    IF net.exc = "RequestException"
    THEN [requested |-> URL, contacts |-> <<>>,
          messagebox |-> [kind |-> "connect", code |-> 0],
          steps |-> <<"get", "showerror">>]
    ELSE [requested |-> URL, contacts |-> extract(net.text),
          messagebox |-> IF ~raises_http_error(net.status_code) THEN NoDialog
                         ELSE IF net.status_code = 404
                              THEN [kind |-> "404", code |-> 404]
                              ELSE [kind |-> "http", code |-> net.status_code],
          steps |-> IF raises_http_error(net.status_code)
                    THEN <<"get", "showerror", "extract">>
                    ELSE <<"get", "extract">>]

\* scrape_contacts() when the network answers net: the URL it requests, the
\* list it returns, the dialog it shows and the calls it makes
scrape_contacts(net) ==
    IF net.exc = "RequestException"
    THEN [requested |-> URL, contacts |-> <<>>,
          messagebox |-> [kind |-> "connect", code |-> 0],
          steps |-> <<"get", "showerror">>]
    ELSE IF raises_http_error(net.status_code)
    THEN [requested |-> URL, contacts |-> <<>>,
          messagebox |-> IF net.status_code = 404
                         THEN [kind |-> "404", code |-> 404]
                         ELSE [kind |-> "http", code |-> net.status_code],
          steps |-> <<"get", "showerror">>]
    ELSE [requested |-> URL, contacts |-> extract(net.text),
          messagebox |-> NoDialog,
          steps |-> <<"get", "extract">>]

(* Inputs of the fetch action *)

JaneRawName ==
    <<" ", " ", "J", "a", "n", "e", " ", " ", " ", "D", "o", "e", " ">>

JaneRawTitle ==
    <<"A", "s", "s", "o", "c", "i", "a", "t", "e", " ", " ", "P", "r",
      "o", "f", "e", "s", "s", "o", "r">>

JaneHref ==
    <<"/", "/", "j", "a", "n", "e", "@", "e", "x", "a", "m", "p", "l",
      "e", ".", "e", "d", "u">>

JaneEmail ==
    <<"j", "a", "n", "e", "@", "e", "x", "a", "m", "p", "l", "e", ".",
      "e", "d", "u">>

CjkName == <<"U+540D", "U+5B57">>

CjkTitle == <<"T", "i", "t", "l", "e">>

CjkEmail == <<"e", "@", "x", ".", "c", "o", "m">>

Blocks ==
    { [name |-> JaneRawName, title |-> JaneRawTitle, mailto |-> JaneHref],
      [name |-> CjkName, title |-> CjkTitle, mailto |-> CjkEmail],
      [name |-> <<"\n", "B", "\t", "\n", "C">>, title |-> <<"D", "\n", "E", " ">>,
       mailto |-> <<" ", "e", "@", "x", ".", "c", "o", "m">>] }

Pages == Strings(Blocks, MaxBlocks)

StatusCodes == {200, 404, 500}

Network ==
    {[exc |-> "RequestException", status_code |-> 0, text |-> <<>>]}
        \cup {[exc |-> "none", status_code |-> c, text |-> p] :
                 c \in StatusCodes, p \in Pages}

Urls == {URL, "https://example.org/staff"}

NoCall == [fn |-> "none", s |-> <<>>, w |-> 0, html |-> <<>>]

NoRet == [done |-> FALSE, value |-> <<>>]

\* lines 137-160: the window is built, the entry holds URL, the text widget
\* is empty, setup_database() has run on a fresh contacts.db
Init ==
    /\ url_entry = URL
    /\ contact_text = <<>>
    /\ db = setup_database(<<>>)
    /\ requested = "none"
    /\ clicked_with = "none"
    /\ messagebox = NoDialog
    /\ returned = <<>>
    /\ steps = <<>>
    /\ response = [exc |-> "none", status_code |-> 0, text |-> <<>>]
    /\ submitted = <<>>
    /\ call = NoCall
    /\ ret = NoRet

\* the user types u into the URL entry
EditUrl(u) ==
    /\ url_entry' = u
    /\ UNCHANGED <<contact_text, db, requested, clicked_with, messagebox,
                   returned, steps, response, submitted, call, ret>>

\* the button's command: display_contacts(scrape_contacts())
Fetch(net) ==
    LET r == scrape_contacts(net)
    IN  /\ clicked_with' = url_entry
        /\ response' = net
        /\ requested' = r.requested
        /\ messagebox' = r.messagebox
        /\ returned' = r.contacts
        /\ steps' = r.steps \o <<"render">>
        /\ contact_text' = display_contacts(r.contacts)
        /\ UNCHANGED <<url_entry, db, submitted, call, ret>>

Next ==
    \/ \E u \in Urls : EditUrl(u)
    \/ \E net \in Network : Fetch(net)

Spec == Init /\ [][Next]_vars

-----------------------------------------------------------------------------
(* Properties of the fetch action, under Spec *)

Fetched == steps # <<>>

TransportFailure(net) ==
    net.exc = "RequestException" \/ net.status_code \in 400..599

StoredEmails == {db[r].email : r \in 1..Len(db)}

\* C1: a fetch action that obtains a page body runs network fetch, extraction,
\* store-save and render in this order, so that after it every extracted
\* email is present in the store.
C1_FetchSavesBeforeRender ==
    (Fetched /\ ~TransportFailure(response)) =>
        /\ steps = <<"get", "extract", "save", "render">>
        /\ \A i \in 1..Len(returned) : returned[i][3] \in StoredEmails

\* C3: when the fetch ends in a transport failure (404, another HTTP error
\* status, a connection-level error) the dialog of that failure kind is shown,
\* extraction is not invoked, the action yields the empty list (an empty
\* table is rendered) and a further fetch action can be triggered.
C3_TransportFailure ==
    (Fetched /\ TransportFailure(response)) =>
        /\ messagebox =
               IF response.exc = "RequestException"
               THEN [kind |-> "connect", code |-> 0]
               ELSE IF response.status_code = 404
                    THEN [kind |-> "404", code |-> 404]
                    ELSE [kind |-> "http", code |-> response.status_code]
        /\ \A k \in 1..Len(steps) : steps[k] # "extract"
        /\ returned = <<>>
        /\ Len(contact_text) = 2
        /\ ENABLED (\E net \in Network : Fetch(net))

\* a 404 whose body holds contact blocks has been answered with the dialog
C3_Witness ==
    /\ Fetched
    /\ response.exc = "none" /\ response.status_code = 404
    /\ Len(response.text) > 0
    /\ messagebox.kind = "404"

\* C5: the URL a fetch action requests is the content of the URL entry at
\* the moment the action is triggered.
C5_RequestsEntryContent ==
    Fetched => requested = clicked_with

\* C7 (as amended): rendering the single record (U+540D U+5B57, "Title",
\* "e@x.com") gives a header row, a separator row of exactly 72 dashes and one
\* data row whose first cell is the two-character name followed by 8 spaces.
C7_CjkRow ==
    (Fetched /\ returned = << <<CjkName, CjkTitle, CjkEmail>> >>) =>
        /\ Len(contact_text) = 3
        /\ contact_text[1] =
               headers[1] \o Repeat(" ", 8) \o headers[2] \o Repeat(" ", 26)
                   \o headers[3] \o Repeat(" ", 25)
        /\ contact_text[2] = Repeat("-", 72)
        /\ SubSeq(contact_text[3], 1, 11) =
               CjkName \o Repeat(" ", 8) \o <<"T">>

C7_Witness ==
    /\ Fetched
    /\ returned = << <<CjkName, CjkTitle, CjkEmail>> >>
    /\ Len(contact_text) = 3

\* C7 (as claimed): ... one data row whose first cell is the two-character
\* name followed by 10 trailing spaces.
C7_TenSpaces ==
    (Fetched /\ returned = << <<CjkName, CjkTitle, CjkEmail>> >>) =>
        /\ Len(contact_text) = 3
        /\ contact_text[2] = Repeat("-", 72)
        /\ SubSeq(contact_text[3], 1, 13) =
               CjkName \o Repeat(" ", 10) \o <<"T">>

\* C8: for n records the rendered output is the header row, the separator
\* row, then exactly n data rows, data row i built from record i: nothing is
\* dropped, duplicated, filtered or reordered.
C8_RowsInOrder ==
    Fetched =>
        /\ Len(contact_text) = 2 + Len(returned)
        /\ SubSeq(contact_text[1], 1, 2) = headers[1]
        /\ \A k \in 1..Len(contact_text[2]) : contact_text[2][k] = "-"
        /\ \A i \in 1..Len(returned) :
               contact_text[2 + i] =
                   pad_string(returned[i][1], 12)
                       \o pad_string(returned[i][2], 30)
                       \o pad_string(returned[i][3], 30)

\* the same record twice, both rows shown
C8_Witness ==
    /\ Fetched
    /\ Len(returned) = 2
    /\ returned[1] = returned[2]
    /\ Len(contact_text) = 4
    /\ contact_text[3] = contact_text[4]

-----------------------------------------------------------------------------
(* The contact store on its own: save_to_database applied to batches *)

NameA == <<"A">>

TitleB == <<"B">>

NameA2 == <<"A", "2">>

TitleB2 == <<"B", "2">>

EmailXY == <<"x", "@", "y", ".", "c", "o", "m">>

EmailZY == <<"z", "@", "y", ".", "c", "o", "m">>

Records ==
    { <<NameA, TitleB, EmailXY>>, <<NameA2, TitleB2, EmailXY>>,
      <<NameA2, TitleB, EmailZY>> }

Batches == Strings(Records, MaxBatch)

Save(contacts) ==
    /\ Len(submitted) < MaxSaves
    /\ db' = save_to_database(db, contacts)
    /\ submitted' = Append(submitted, contacts)
    /\ UNCHANGED <<url_entry, contact_text, requested, clicked_with,
                   messagebox, returned, steps, response, call, ret>>

SetupDatabase ==
    /\ db' = setup_database(db)
    /\ UNCHANGED <<url_entry, contact_text, requested, clicked_with,
                   messagebox, returned, steps, response, submitted, call, ret>>

NextStore ==
    \/ \E contacts \in Batches : Save(contacts)
    \/ SetupDatabase

SpecStore == Init /\ [][NextStore]_vars

RECURSIVE Flatten(_)
Flatten(batches) ==
    IF batches = <<>> THEN <<>> ELSE Head(batches) \o Flatten(Tail(batches))

\* C2: from an empty initialized store, after any sequence of saves the store
\* holds exactly one record for each distinct email ever submitted, carrying
\* the name and title of the earliest submission with that email; a later
\* conflicting submission neither overwrites it nor keeps the rest of its
\* batch from being inserted.
C2_FirstWriteWins ==
    LET all == Flatten(submitted)
    IN  /\ \A r1, r2 \in 1..Len(db) : db[r1].email = db[r2].email => r1 = r2
        /\ {db[r].email : r \in 1..Len(db)} = {all[k][3] : k \in 1..Len(all)}
        /\ \A r \in 1..Len(db) :
               \E k \in 1..Len(all) :
                   /\ all[k][3] = db[r].email
                   /\ \A j \in 1..k - 1 : all[j][3] # db[r].email
                   /\ db[r].name = all[k][1]
                   /\ db[r].title = all[k][2]

\* a batch whose first record conflicts with a stored one of another name and
\* whose second record is new: the store keeps the old name and gains the new
C2_Witness ==
    /\ Len(submitted) = 2
    /\ submitted[1] = << <<NameA, TitleB, EmailXY>> >>
    /\ submitted[2] = << <<NameA2, TitleB2, EmailXY>>, <<NameA2, TitleB, EmailZY>> >>
    /\ Len(db) = 2
    /\ db[1].name = NameA
    /\ db[2].email = EmailZY

-----------------------------------------------------------------------------
(* The pure functions on their own: each call is drawn, then made *)

WidthChars ==
    {"a", " ", "U+540D", "U+FF21", "U+00B1", "U+FF76", "U+05D0"}

EmailChars == {"/", "a", " "}

FieldSamples == {JaneRawName, JaneRawTitle, <<"\n", "B", "\t", "\n", "C">>}

Calls ==
    {[fn |-> "get_display_width", s |-> s, w |-> 0, html |-> <<>>] :
        s \in Strings(WidthChars, MaxLen)}
    \cup
    {[fn |-> "pad_string", s |-> s, w |-> w, html |-> <<>>] :
        s \in Strings(WidthChars, MaxLen), w \in 0..MaxWidth}
    \cup
    {[fn |-> "extract", s |-> <<>>, w |-> 0,
      html |-> << [name |-> n, title |-> ti, mailto |-> m] >>] :
        n \in FieldSamples, ti \in FieldSamples,
        m \in Strings(EmailChars, MaxEmailLen) \cup {JaneHref}}

InitFn ==
    /\ url_entry = URL
    /\ contact_text = <<>>
    /\ db = setup_database(<<>>)
    /\ requested = "none"
    /\ clicked_with = "none"
    /\ messagebox = NoDialog
    /\ returned = <<>>
    /\ steps = <<>>
    /\ response = [exc |-> "none", status_code |-> 0, text |-> <<>>]
    /\ submitted = <<>>
    /\ call \in Calls
    /\ ret = NoRet

CallGetDisplayWidth ==
    /\ call.fn = "get_display_width" /\ ~ret.done
    /\ ret' = [done |-> TRUE, value |-> get_display_width(call.s)]
    /\ UNCHANGED <<prog_vars, call>>

CallPadString ==
    /\ call.fn = "pad_string" /\ ~ret.done
    /\ ret' = [done |-> TRUE, value |-> pad_string(call.s, call.w)]
    /\ UNCHANGED <<prog_vars, call>>

CallExtract ==
    /\ call.fn = "extract" /\ ~ret.done
    /\ ret' = [done |-> TRUE, value |-> extract(call.html)]
    /\ UNCHANGED <<prog_vars, call>>

NextFn ==
    \/ CallGetDisplayWidth
    \/ CallPadString
    \/ CallExtract

SpecFn == InitFn /\ [][NextFn]_vars

HasDoubleSpace(x) ==
    \E k \in 1..Len(x) - 1 : is_space(x[k]) /\ is_space(x[k + 1])

Trimmed(x) == x = <<>> \/ (~is_space(x[1]) /\ ~is_space(x[Len(x)]))

\* C4: for every extracted triple, the emitted name and the emitted title
\* have every maximal whitespace run replaced by one space and no leading or
\* trailing whitespace: neither holds two consecutive whitespace characters.
C4_NameAndTitleNormalized ==
    (call.fn = "extract" /\ ret.done) =>
        \A i \in 1..Len(ret.value) : \A f \in {1, 2} :
            LET x == ret.value[i][f]
            IN  /\ ~HasDoubleSpace(x)
                /\ Trimmed(x)
                /\ \A k \in 1..Len(x) : is_space(x[k]) => x[k] = " "

\* C6: the rendered cell is s followed only by ASCII spaces, s is never
\* truncated, and the cell's display width is max(display_width(s), w):
\* w - display_width(s) spaces when display_width(s) < w, none otherwise.
C6_PadString ==
    (call.fn = "pad_string" /\ ret.done) =>
        LET s    == call.s
            cell == ret.value
            dw   == get_display_width(s)
        IN  /\ Len(cell) >= Len(s)
            /\ SubSeq(cell, 1, Len(s)) = s
            /\ \A k \in Len(s) + 1..Len(cell) : cell[k] = " "
            /\ Len(cell) - Len(s) = IF dw < call.w THEN call.w - dw ELSE 0
            /\ get_display_width(cell) = Max(dw, call.w)

\* a wide character padded to five columns: three spaces, not four
C6_Witness ==
    /\ call.fn = "pad_string" /\ ret.done
    /\ call.s = <<"U+540D">> /\ call.w = 5
    /\ ret.value = <<"U+540D", " ", " ", " ">>

\* C9: the display width is the sum over the characters of 2 for each of
\* class Fullwidth, Wide or Ambiguous and 1 for every other; 0 for the empty
\* string, the character count for ASCII, twice that for full-width only.
C9_DisplayWidth ==
    (call.fn = "get_display_width" /\ ret.done) =>
        LET s    == call.s
            wide == {i \in 1..Len(s) :
                        east_asian_width(s[i]) \in {"F", "W", "A"}}
        IN  /\ ret.value = 2 * Cardinality(wide) + (Len(s) - Cardinality(wide))
            /\ s = <<>> => ret.value = 0
            /\ (\A i \in 1..Len(s) : s[i] \in {"a", " "}) => ret.value = Len(s)
            /\ (\A i \in 1..Len(s) : s[i] \in {"U+540D", "U+FF21"})
                   => ret.value = 2 * Len(s)

\* a wide, a narrow and an ambiguous character: 2 + 1 + 2
C9_Witness ==
    /\ call.fn = "get_display_width" /\ ret.done
    /\ call.s = <<"U+540D", "a", "U+00B1">>
    /\ ret.value = 5

NoSlash(x) == SelectSeq(x, LAMBDA c : c # "/")

\* C10: for every captured mailto address, whatever runs of slashes it
\* holds, the emitted email has no double slash and no leading or trailing
\* whitespace, and the other characters are kept in their order.
C10_EmailCleaned ==
    (call.fn = "extract" /\ ret.done) =>
        \A i \in 1..Len(ret.value) :
            LET captured == call.html[i].mailto
                email    == ret.value[i][3]
            IN  /\ \A k \in 1..Len(email) - 1 :
                       ~(email[k] = "/" /\ email[k + 1] = "/")
                /\ Trimmed(email)
                /\ strip(NoSlash(email)) = strip(NoSlash(captured))
                /\ captured = JaneHref => email = JaneEmail

\* a run of three slashes: one pair goes, one slash stays
C10_Witness ==
    /\ call.fn = "extract" /\ ret.done
    /\ call.html[1].mailto = <<"/", "/", "/", "a">>
    /\ ret.value[1][3] = <<"/", "a">>

====
